---- MODULE Spec2Model ----
(***************************************************************************)
(* A model of main.py of llm-fastapi: the shared-secret guard, the chat    *)
(* handler, the two fine-tuning handlers and the login handler, run by a   *)
(* single-threaded event loop that interleaves requests at every await.    *)
(*                                                                         *)
(* Python values are modelled as follows.                                  *)
(*   str (header, secret)   a sequence of one-character strings            *)
(*   Optional[T] / unbound  <<>> for None (or a local never assigned),     *)
(*                          <<v>> for the value v                          *)
(*   dict                   a record; "k" \in DOMAIN d is `"k" in d`       *)
(*   exception              [type |-> ..., args |-> <<...>>]               *)
(***************************************************************************)
EXTENDS Naturals, Sequences, FiniteSets, TLC

VARIABLES
    environ,        \* os.environ after load_dotenv(): name -> Optional[str]
    SECRET_KEY,     \* main.py:32, module global
    loaded_models,  \* main.py:21, module global: the model registry
    openai_api_key, \* openai.api_key, the provider client's module global
    req             \* the requests in flight: Reqs -> request record

vars == <<environ, SECRET_KEY, loaded_models, openai_api_key, req>>

---------------------------------------------------------------------------
(* Bounds *)

\* number of requests that can be in flight together
NumReqs == 2
\* longest secret / header remainder enumerated for the guard
MaxLen == 2

Reqs == 1..NumReqs

None == <<>>
Some(v) == <<v>>

---------------------------------------------------------------------------
(* Strings of the guard *)

Alphabet == {"a", "b", " "}

RECURSIVE StrsOfLen(_)
StrsOfLen(n) ==
    IF n = 0 THEN {<<>>}
    ELSE {Append(s, c) : s \in StrsOfLen(n - 1), c \in Alphabet}

Strs == UNION {StrsOfLen(n) : n \in 0..MaxLen}

\* "Bearer ", main.py:35
prefix == <<"B", "e", "a", "r", "e", "r", " ">>

\* header beginnings the guard is tried on: the right one and near misses
HeaderStarts ==
    {prefix,
     <<"B", "e", "a", "r", "e", "r">>,
     <<"b", "e", "a", "r", "e", "r", " ">>,
     <<" ", "B", "e", "a", "r", "e", "r", " ">>,
     <<"B", "e", "a", "r">>,
     <<>>}

Headers == {p \o s : p \in HeaderStarts, s \in Strs}

\* the headers and secrets tried on the handlers
MainSecrets == {None, Some(<<"a">>)}
MainHeaders == {prefix \o <<"a">>, prefix \o <<"b">>}

---------------------------------------------------------------------------
(* Responses and exceptions *)

Exc(type, args) == [type |-> type, args |-> args]

\* repr() of the strings that occur as dictionary keys
repr(s) == IF s = "id" THEN "'id'" ELSE s

\* str(e) of a Python exception: "" without arguments, the argument itself
\* with one (its repr, quoted, for a KeyError)
str_exc(e) ==
    IF Len(e.args) = 0 THEN ""
    ELSE IF e.type = "KeyError" THEN repr(e.args[1])
    ELSE e.args[1]

NoResponse == [kind |-> "none"]
JSONResponse(body) == [kind |-> "json", status_code |-> 200, body |-> body]
HTTPException(status_code, detail) ==
    [kind |-> "HTTPException", status_code |-> status_code, detail |-> detail]
\* an exception that leaves the handler: the server answers a bare 500
Unhandled(e) == [kind |-> "unhandled", status_code |-> 500, exc |-> e]

\* the outcome of a call into code outside main.py
Pending == [tag |-> "pending"]
Return(v) == [tag |-> "return", value |-> v]
Raise(e) == [tag |-> "raise", exc |-> e]
Call(fn, args, outcome) == [fn |-> fn, args |-> args, outcome |-> outcome]

---------------------------------------------------------------------------
(* The shared-secret guard, main.py:34-42 *)

startswith(s, p) == Len(s) >= Len(p) /\ SubSeq(s, 1, Len(p)) = p

\* s[n:]
slice_from(s, n) == SubSeq(s, n + 1, Len(s))

\* a comparison that is skipped while no secret is configured
secret_differs_IfSet(secret_key, secret) ==
    secret # None /\ Some(secret_key) # secret

\* secret_key != SECRET_KEY, a str against an Optional[str]
secret_differs(secret_key, secret) == Some(secret_key) # secret

get_secret_key(authorization, secret) ==
    IF ~startswith(authorization, prefix)
    THEN Raise(HTTPException(401, "Unauthorized: Invalid Secret Key"))
    ELSE LET secret_key == slice_from(authorization, Len(prefix))
         IN IF secret_differs(secret_key, secret)
            THEN Raise(HTTPException(401, "Unauthorized: Invalid Secret Key"))
            ELSE Return(secret_key)

---------------------------------------------------------------------------
(* Requests *)

GatedRoutes == {"chat", "finetune_openai", "finetune_peft"}

IdleReq ==
    [pc |-> "idle", route |-> "", authorization |-> <<>>, input |-> None,
     data_format_errors |-> None, messages_errors |-> None,
     file_id |-> None, fine_tuning_job_id |-> None, errors |-> None,
     calls |-> <<>>, response |-> NoResponse]

\* the handler returned or raised: the request is answered
Done(rq, response) == [rq EXCEPT !.pc = "done", !.response = response]

\* a request to a gated route arrives and Depends(get_secret_key) is resolved
Arrive(r, route, authorization) ==
    /\ req[r].pc = "idle"
    /\ LET g == get_secret_key(authorization, SECRET_KEY)
           rq == [req[r] EXCEPT !.route = route, !.authorization = authorization]
       IN req' = [req EXCEPT ![r] =
                    IF g.tag = "raise" THEN Done(rq, g.exc)
                    ELSE [rq EXCEPT !.pc = "authorized"]]
    /\ UNCHANGED <<environ, SECRET_KEY, loaded_models, openai_api_key>>

---------------------------------------------------------------------------
(* Startup, main.py:19-32 *)

PHI == "microsoft/phi-1_5"
ZEPHYR == "HuggingFaceH4/zephyr-7b-beta"

\* load_models.model_list.models: the configured model list
ModelLists == {{PHI, ZEPHYR}}

load_models(models) ==
    [m \in models |-> [model |-> <<"model", m>>, tokenizer |-> <<"tokenizer", m>>]]

OpenAIKeys == {None, Some("sk-1")}

\* the module globals after import: SECRET_KEY is read from the environment
\* once; openai.api_key holds what the client found when it was imported,
\* before load_dotenv() ran
Startup(secrets) ==
    /\ environ \in [SECRET_KEY : secrets, OPENAI_API_KEY : OpenAIKeys]
    /\ SECRET_KEY = environ.SECRET_KEY
    /\ loaded_models \in {load_models(ms) : ms \in ModelLists}
    /\ openai_api_key \in {None, environ.OPENAI_API_KEY}
    /\ req = [r \in Reqs |-> IdleReq]

---------------------------------------------------------------------------
(* POST /api/chat/opensourcemodel, main.py:69-95 *)

Histories == {<<>>, <<[role |-> "user", content |-> "hi"]>>}
Questions == {None, Some("2+2?")}

\* models.ChatMessages: question is an optional field. The bodies tried: a
\* direct question present or absent, a history empty or not, an unknown model
ChatMessages ==
    [selected_model : {PHI}, chat_history : {<<>>}, question : Questions]
    \cup [selected_model : {ZEPHYR}, chat_history : Histories, question : {None}]
    \cup [selected_model : {"not-a-model"}, chat_history : {<<>>},
          question : {Some("2+2?")}]

\* what a generation routine or create_prompt can do
Failures == {Exc("RuntimeError", <<"CUDA out of memory">>), Exc("ValueError", <<>>)}
GenOutcomes == {Return("generated text")} \cup {Raise(e) : e \in Failures}
PromptOutcomes == {Return("prompt")} \cup {Raise(e) : e \in Failures}

\* the handler without the membership test of main.py:77
ValidModelName_Any(model_name, registry) == TRUE

\* main.py:77
ValidModelName(model_name, registry) == model_name \in DOMAIN registry

\* main.py:83, the branch on the model identifier
IsDirectQuestion(model_name) == model_name = PHI

\* an except clause that answers with a fixed detail
chat_except_Generic(e) == HTTPException(500, "Internal Server Error")

\* main.py:94-95
chat_except(e) == HTTPException(500, str_exc(e))

\* main.py:90-95, what the try block makes of the generation routine's outcome
chat_result(outcome) ==
    IF outcome.tag = "raise" THEN chat_except(outcome.exc)
    ELSE JSONResponse([success |-> TRUE, message |-> outcome.value])

\* the handler body: it has no await, so it runs in one step. The result is
\* the calls it made, in order, and its response.
chat(chat_messages, registry, prompt_outcome, gen_outcome) ==
    LET model_name == chat_messages.selected_model
        chat_history == chat_messages.chat_history
    IN IF ~ValidModelName(model_name, registry)
       THEN [calls |-> <<>>, response |-> HTTPException(400, "Invalid model name")]
       ELSE IF model_name \notin DOMAIN registry
       THEN \* main.py:80, a lookup of a missing key, outside the try block
            [calls |-> <<>>, response |-> Unhandled(Exc("KeyError", <<model_name>>))]
       ELSE
         LET model == registry[model_name].model
             tokenizer == registry[model_name].tokenizer
         IN IF IsDirectQuestion(model_name)
            THEN LET question == chat_messages.question
                 IN [calls |-> <<Call("generate_text_phi1_5",
                                      <<model, tokenizer, question>>, gen_outcome)>>,
                     response |-> chat_result(gen_outcome)]
            ELSE LET c == Call("create_prompt",
                               <<DOMAIN registry, model_name, chat_history>>,
                               prompt_outcome)
                 IN IF prompt_outcome.tag = "raise"
                    THEN [calls |-> <<c>>, response |-> chat_except(prompt_outcome.exc)]
                    ELSE [calls |-> <<c, Call("generate_text_pipeline",
                                             <<model, tokenizer, prompt_outcome.value>>,
                                             gen_outcome)>>,
                          response |-> chat_result(gen_outcome)]

Chat(r, chat_messages, prompt_outcome, gen_outcome) ==
    /\ req[r].pc = "authorized"
    /\ req[r].route = "chat"
    /\ LET res == chat(chat_messages, loaded_models, prompt_outcome, gen_outcome)
       IN req' = [req EXCEPT ![r] =
                    Done([req[r] EXCEPT !.input = Some(chat_messages),
                                        !.calls = res.calls],
                         res.response)]
    /\ UNCHANGED <<environ, SECRET_KEY, loaded_models, openai_api_key>>

---------------------------------------------------------------------------
(* The training-data validators, finetuning/validation.py *)

Roles == {"system", "user", "assistant"}

Good ==
    [messages |-> <<[role |-> "user", content |-> "hi"],
                    [role |-> "assistant", content |-> "hello"]>>]
BadShape == [bad |-> "shape"]
NoAssistant == [messages |-> <<[role |-> "user", content |-> "hi"]>>]
BadRole ==
    [messages |-> <<[role |-> "robot", content |-> "hi"],
                    [role |-> "assistant", content |-> "hello"]>>]

\* an uploaded file: whether it decodes and parses (utf-8, one JSON value per
\* non-empty line), and the records it parses to
File(parses, records) == [parses |-> parses, records |-> records]

Files ==
    {File(TRUE, <<Good>>), File(TRUE, <<BadShape>>), File(TRUE, <<NoAssistant>>),
     File(TRUE, <<BadRole, NoAssistant>>), File(FALSE, <<>>)}

\* every record is a mapping with exactly a messages field, a non-empty
\* sequence of messages whose roles are known; every deviation is reported
\* under the record's index and the field's name
validate_data_format(file_list) ==
    {[index |-> i, field |-> "messages"] :
        i \in {j \in 1..Len(file_list) :
                 \/ DOMAIN file_list[j] # {"messages"}
                 \/ file_list[j].messages = <<>>}}
    \cup
    {[index |-> i, field |-> "role"] :
        i \in {j \in 1..Len(file_list) :
                 /\ "messages" \in DOMAIN file_list[j]
                 /\ \E k \in 1..Len(file_list[j].messages) :
                       file_list[j].messages[k].role \notin Roles}}

\* the rules on the content of the messages: every conversation holds an
\* assistant message
validate_messages(file_list) ==
    {[index |-> i, rule |-> "assistant"] :
        i \in {j \in 1..Len(file_list) :
                 /\ "messages" \in DOMAIN file_list[j]
                 /\ \A k \in 1..Len(file_list[j].messages) :
                       file_list[j].messages[k].role # "assistant"}}

---------------------------------------------------------------------------
(* POST /api/finetuning/openai, main.py:97-137 *)

\* the form of the request; suffix has no Form(...) and keeps its default
FineTuningForms ==
    [file : Files, finetuning : {"gpt-3.5-turbo"},
     suffix : {"typing.Optional[str]"}, epochs : {3}]

ProviderFailures ==
    {Exc("APIConnectionError", <<"connection refused">>),
     Exc("InvalidRequestError", <<"invalid training file">>)}

\* what upload_training_file can do: a file object, a reply without an id,
\* or a failure
UploadOutcomes ==
    {Return([id |-> "file-1"]), Return([id |-> "file-2"]), Return([object |-> "file"])}
    \cup {Raise(e) : e \in ProviderFailures}

\* what fine_tune_openai_model can do
JobOutcomes ==
    {Return([id |-> j]) : j \in {"ftjob-1", "ftjob-2"}}
    \cup {Raise(e) : e \in ProviderFailures}

\* a reference to a function object, as opposed to a value it returned
FunctionObject(name) == [function |-> name]

\* main.py:105, the handler awaits file.read()
FinetuneRead(r, form) ==
    /\ req[r].pc = "authorized"
    /\ req[r].route = "finetune_openai"
    /\ req' = [req EXCEPT ![r] = [@ EXCEPT !.pc = "reading", !.input = Some(form)]]
    /\ UNCHANGED <<environ, SECRET_KEY, loaded_models, openai_api_key>>

\* the test of main.py:112 with `or` for `and`
Validated_Either(messages_errors, data_format_errors) ==
    messages_errors = {} \/ data_format_errors = {}

\* main.py:112
Validated(messages_errors, data_format_errors) ==
    messages_errors = {} /\ data_format_errors = {}

\* a key that does not come from the environment
getenv_OPENAI_API_KEY_Fixed(env) == Some("sk-0")

\* main.py:114, os.getenv("OPENAI_API_KEY")
getenv_OPENAI_API_KEY(env) == env.OPENAI_API_KEY

\* d["id"]: the value, or KeyError('id')
subscript_id(d) ==
    IF "id" \in DOMAIN d THEN Return(d.id) ELSE Raise(Exc("KeyError", <<"id">>))

\* main.py:126-127: HTTPException(detail=str(e)) lacks the required
\* status_code, so building it raises TypeError and that leaves the handler
finetune_except(e) ==
    Unhandled(Exc("TypeError",
        <<"__init__() missing 1 required positional argument: 'status_code'">>))

\* main.py:129-137: the error map holds the two validator functions; the
\* response reads fine_tuning_job_id, which this path never assigned
finetune_errors == 
    [data_format |-> FunctionObject("validate_data_format"),
     messages |-> FunctionObject("validate_messages")]

finetune_rejected(rq) ==
    IF rq.fine_tuning_job_id = None
    THEN Unhandled(Exc("UnboundLocalError",
        <<"local variable 'fine_tuning_job_id' referenced before assignment">>))
    ELSE JSONResponse([success |-> FALSE, id |-> rq.fine_tuning_job_id[1],
                       error |-> rq.errors[1]])

\* a job submission that names a fixed file
job_args_Fixed(file_id, form) == <<"file-1", form.finetuning, form.suffix, form.epochs>>

\* main.py:119, the arguments of the job submission
job_args(file_id, form) == <<file_id, form.finetuning, form.suffix, form.epochs>>

\* main.py:122-125
finetune_accepted(fine_tuning_job_id) ==
    JSONResponse([success |-> TRUE, id |-> fine_tuning_job_id,
                  message |-> "Your request has been successfully sent to OpenAI"])

\* main.py:106-116 and 128-137: file.read() returned; decode, parse and
\* validate, then either set the api key and await the upload, or reject
FinetuneValidate(r) ==
    /\ req[r].pc = "reading"
    /\ req[r].route = "finetune_openai"
    /\ LET form == req[r].input[1]
           file_content == form.file
       IN IF ~file_content.parses
          THEN /\ req' = [req EXCEPT ![r] =
                    Done(@, Unhandled(Exc("ValueError", <<"invalid file">>)))]
               /\ UNCHANGED openai_api_key
          ELSE
            LET file_list == file_content.records
                data_format_errors == validate_data_format(file_list)
                messages_errors == validate_messages(file_list)
                rq == [req[r] EXCEPT !.data_format_errors = Some(data_format_errors),
                                     !.messages_errors = Some(messages_errors)]
            IN IF Validated(messages_errors, data_format_errors)
               THEN /\ openai_api_key' = getenv_OPENAI_API_KEY(environ)
                    /\ req' = [req EXCEPT ![r] =
                         [rq EXCEPT !.pc = "uploading",
                                    !.calls = Append(@, Call("upload_training_file",
                                                  <<file_content>>, Pending))]]
               ELSE /\ LET rj == [rq EXCEPT !.errors = Some(finetune_errors)]
                       IN req' = [req EXCEPT ![r] = Done(rj, finetune_rejected(rj))]
                    /\ UNCHANGED openai_api_key
    /\ UNCHANGED <<environ, SECRET_KEY, loaded_models>>

\* the last call of the request, completed with its outcome
Completed(calls, outcome) == [calls EXCEPT ![Len(calls)].outcome = outcome]

\* main.py:116-119: upload_training_file returned or raised
UploadReturns(r, outcome) ==
    /\ req[r].pc = "uploading"
    /\ LET rq == [req[r] EXCEPT !.calls = Completed(@, outcome)]
           file_id == IF outcome.tag = "raise" THEN outcome
                      ELSE subscript_id(outcome.value)
       IN req' = [req EXCEPT ![r] =
            IF file_id.tag = "raise" THEN Done(rq, finetune_except(file_id.exc))
            ELSE [rq EXCEPT !.pc = "submitting",
                            !.file_id = Some(file_id.value),
                            !.calls = Append(@, Call("fine_tune_openai_model",
                                          job_args(file_id.value, rq.input[1]),
                                          Pending))]]
    /\ UNCHANGED <<environ, SECRET_KEY, loaded_models, openai_api_key>>

\* main.py:119-127: fine_tune_openai_model returned or raised
JobReturns(r, outcome) ==
    /\ req[r].pc = "submitting"
    /\ LET rq == [req[r] EXCEPT !.calls = Completed(@, outcome)]
           job_id == IF outcome.tag = "raise" THEN outcome
                     ELSE subscript_id(outcome.value)
       IN req' = [req EXCEPT ![r] =
            IF job_id.tag = "raise" THEN Done(rq, finetune_except(job_id.exc))
            ELSE Done([rq EXCEPT !.fine_tuning_job_id = Some(job_id.value)],
                      finetune_accepted(job_id.value))]
    /\ UNCHANGED <<environ, SECRET_KEY, loaded_models, openai_api_key>>

---------------------------------------------------------------------------
(* POST /api/finetuning/peft, main.py:139-159 *)

\* main.py:149, the handler awaits file.read()
PeftRead(r) ==
    /\ req[r].pc = "authorized"
    /\ req[r].route = "finetune_peft"
    /\ req' = [req EXCEPT ![r] = [@ EXCEPT !.pc = "reading"]]
    /\ UNCHANGED <<environ, SECRET_KEY, loaded_models, openai_api_key>>

\* main.py:150-159: the specs are built and the handler returns None
PeftReturn(r) ==
    /\ req[r].pc = "reading"
    /\ req[r].route = "finetune_peft"
    /\ req' = [req EXCEPT ![r] = Done(@, JSONResponse([null |-> TRUE]))]
    /\ UNCHANGED <<environ, SECRET_KEY, loaded_models, openai_api_key>>

---------------------------------------------------------------------------
(* POST /token, main.py:44-57 *)

\* dependencies.fake_users_db and the forms tried against it
fake_users_db == {[username |-> "johndoe", password |-> "secret", disabled |-> FALSE]}
LoginForms ==
    {[username |-> "johndoe", password |-> "secret"],
     [username |-> "johndoe", password |-> "guess"],
     [username |-> "nobody", password |-> "secret"]}

\* the user, or None when there is none, it is disabled or the password is wrong
authenticate_user(db, username, password) ==
    LET found == {u \in db : u.username = username /\ u.password = password
                               /\ ~u.disabled}
    IN IF found = {} THEN None ELSE Some(CHOOSE u \in found : TRUE)

Login(r, form_data) ==
    /\ req[r].pc = "idle"
    /\ LET user == authenticate_user(fake_users_db, form_data.username,
                                     form_data.password)
           rq == [req[r] EXCEPT !.route = "login", !.input = Some(form_data)]
       IN req' = [req EXCEPT ![r] =
            IF user = None
            THEN Done(rq, HTTPException(401, "Incorrect username or password"))
            ELSE Done(rq, JSONResponse([access_token |-> <<"token", user[1].username>>,
                                        token_type |-> "bearer"]))]
    /\ UNCHANGED <<environ, SECRET_KEY, loaded_models, openai_api_key>>

---------------------------------------------------------------------------
(* GET /users/me and GET /, main.py:59-67 *)

\* what Depends(get_current_active_user) can do: the token's user, or 401
CurrentUserOutcomes ==
    {Return(Some(u)) : u \in fake_users_db}
    \cup {Raise(HTTPException(401, "Could not validate credentials"))}

\* main.py:59-61
read_users_me(current_user) == JSONResponse(current_user[1])

\* main.py:63-67
root(current_user) ==
    IF current_user # None THEN JSONResponse([message |-> "Hello World"])
    ELSE JSONResponse([message |-> "Unauthorized"])

\* a request to a route behind the token guard, answered in one step
TokenRoute(r, route, outcome) ==
    /\ req[r].pc = "idle"
    /\ LET rq == [req[r] EXCEPT !.route = route]
       IN req' = [req EXCEPT ![r] =
            IF outcome.tag = "raise" THEN Done(rq, outcome.exc)
            ELSE IF route = "read_users_me" THEN Done(rq, read_users_me(outcome.value))
            ELSE Done(rq, root(outcome.value))]
    /\ UNCHANGED <<environ, SECRET_KEY, loaded_models, openai_api_key>>

---------------------------------------------------------------------------
(* The service *)

Init == Startup(MainSecrets)

Next ==
    \E r \in Reqs :
        \/ \E route \in GatedRoutes, authorization \in MainHeaders :
               Arrive(r, route, authorization)
        \/ \E cm \in ChatMessages, po \in PromptOutcomes, go \in GenOutcomes :
               Chat(r, cm, po, go)
        \/ \E form \in FineTuningForms : FinetuneRead(r, form)
        \/ FinetuneValidate(r)
        \/ \E outcome \in UploadOutcomes : UploadReturns(r, outcome)
        \/ \E outcome \in JobOutcomes : JobReturns(r, outcome)
        \/ PeftRead(r)
        \/ PeftReturn(r)
        \/ \E form_data \in LoginForms : Login(r, form_data)
        \/ \E route \in {"read_users_me", "root"}, outcome \in CurrentUserOutcomes :
               TokenRoute(r, route, outcome)

Spec == Init /\ [][Next]_vars

InitAuth == Startup({None} \cup {Some(s) : s \in Strs})

NextAuth == \E authorization \in Headers : Arrive(1, "chat", authorization)

SpecAuth == InitAuth /\ [][NextAuth]_vars

---------------------------------------------------------------------------
(* Properties *)

FinetuneReqs == {r \in Reqs : req[r].route = "finetune_openai" /\ req[r].input # None}
ChatReqs == {r \in Reqs : req[r].route = "chat" /\ req[r].input # None}

\* the file of a fine-tuning request was parsed and a validator found an error
ValidationFailed(r) ==
    /\ req[r].input[1].file.parses
    /\ \/ validate_data_format(req[r].input[1].file.records) # {}
       \/ validate_messages(req[r].input[1].file.records) # {}

\* the failures raised by the calls of a request
RaisedBy(r) ==
    {req[r].calls[i].outcome.exc :
        i \in {j \in 1..Len(req[r].calls) : req[r].calls[j].outcome.tag = "raise"}}

\* C1: a fine-tuning request makes an external call only if both validators
\* found no error in its file; when either found one, the request ends with
\* no external call made.
C1_NoCallUnlessValid ==
    \A r \in FinetuneReqs :
        /\ req[r].calls # <<>> =>
              /\ req[r].input[1].file.parses
              /\ validate_data_format(req[r].input[1].file.records) = {}
              /\ validate_messages(req[r].input[1].file.records) = {}
        /\ (req[r].pc = "done" /\ ValidationFailed(r)) => req[r].calls = <<>>

C1_Witness ==
    \E r \in FinetuneReqs :
        /\ req[r].pc = "done"
        /\ validate_data_format(req[r].input[1].file.records) = {}
        /\ validate_messages(req[r].input[1].file.records) # {}
        /\ req[r].calls = <<>>

\* C2: when validation of the file fails, the fine-tuning handler answers
\* normally with {success: false, error: ...} and without an id field.
C2_RejectionOmitsId ==
    \A r \in FinetuneReqs :
        (req[r].pc = "done" /\ ValidationFailed(r)) =>
            /\ req[r].response.kind = "json"
            /\ req[r].response.body.success = FALSE
            /\ "error" \in DOMAIN req[r].response.body
            /\ "id" \notin DOMAIN req[r].response.body

\* C3: an authorized chat request whose model is not a key of the registry
\* ends with 400 "Invalid model name" and no generation routine was called.
C3_InvalidModel ==
    \A r \in ChatReqs :
        (req[r].pc = "done" /\ req[r].input[1].selected_model \notin DOMAIN loaded_models) =>
            /\ req[r].response = HTTPException(400, "Invalid model name")
            /\ req[r].calls = <<>>

C3_Witness ==
    \E r \in ChatReqs :
        /\ req[r].pc = "done"
        /\ req[r].input[1].selected_model \notin DOMAIN loaded_models

\* the header is "Bearer " followed by exactly the process secret
BearsSecret(h, secret) ==
    /\ secret # None
    /\ Len(h) = 7 + Len(secret[1])
    /\ <<h[1], h[2], h[3], h[4], h[5], h[6], h[7]>> = <<"B", "e", "a", "r", "e", "r", " ">>
    /\ \A i \in 1..Len(secret[1]) : h[7 + i] = secret[1][i]

\* C4: the guard lets a request through exactly when its Authorization
\* header is "Bearer " followed by the process secret, character for
\* character; every other header, and every header when the secret is
\* unset, is answered 401.
C4_GuardExact ==
    \A r \in Reqs :
        req[r].route \in GatedRoutes =>
            IF BearsSecret(req[r].authorization, SECRET_KEY)
            THEN req[r].pc # "done" \/ req[r].response.kind # "HTTPException"
                    \/ req[r].response.status_code # 401
            ELSE /\ req[r].pc = "done"
                 /\ req[r].response.kind = "HTTPException"
                 /\ req[r].response.status_code = 401

C4_Witness ==
    \E r \in Reqs :
        /\ req[r].pc = "authorized"
        /\ SECRET_KEY # None
        /\ Len(SECRET_KEY[1]) > 0

\* C5: a chat request with a registered model whose prompt construction or
\* generation routine raised ends with HTTPException 500 whose detail is
\* the message of that failure; it is neither left unhandled nor answered
\* with success.
C5_GenerationFailed ==
    \A r \in ChatReqs :
        (req[r].pc = "done" /\ req[r].input[1].selected_model \in DOMAIN loaded_models) =>
            \A e \in RaisedBy(r) :
                req[r].response = HTTPException(500, str_exc(e))

C5_Witness ==
    \E r \in ChatReqs :
        /\ req[r].pc = "done"
        /\ \E e \in RaisedBy(r) : e.args # <<>>

\* C6: when the upload or the job submission of a validated file raised,
\* the handler's answer carries the message of that failure, and no call
\* follows the failed one.
C6_ProviderFailureReported ==
    \A r \in FinetuneReqs :
        req[r].pc = "done" =>
            \A e \in RaisedBy(r) :
                /\ \/ /\ req[r].response.kind = "HTTPException"
                      /\ req[r].response.detail = str_exc(e)
                   \/ /\ req[r].response.kind = "json"
                      /\ req[r].response.body.success = FALSE
                      /\ req[r].response.body.error = str_exc(e)
                /\ req[r].calls[Len(req[r].calls)].outcome.tag = "raise"

\* C7: a chat request for microsoft/phi-1_5 without a question ends with a
\* 400 client error and the generation routine was not called.
C7_MissingQuestion ==
    \A r \in ChatReqs :
        (/\ req[r].pc = "done"
         /\ req[r].input[1].selected_model = PHI
         /\ PHI \in DOMAIN loaded_models
         /\ req[r].input[1].question = None) =>
            /\ req[r].response.kind = "HTTPException"
            /\ req[r].response.status_code = 400
            /\ req[r].calls = <<>>

\* C8: when validation fails, the error map of the answer holds, under
\* data_format and messages, the error collections the two validators
\* computed for the file.
C8_ErrorMapHoldsErrors ==
    \A r \in FinetuneReqs :
        (req[r].pc = "done" /\ ValidationFailed(r)) =>
            /\ req[r].response.kind = "json"
            /\ "function" \notin DOMAIN req[r].response.body.error.data_format
            /\ "function" \notin DOMAIN req[r].response.body.error.messages
            /\ req[r].response.body.error =
                 [data_format |-> validate_data_format(req[r].input[1].file.records),
                  messages |-> validate_messages(req[r].input[1].file.records)]

\* C9: a fine-tuning request makes at most the upload and then the job
\* submission, once each; the job is submitted only after the upload
\* returned a file identifier and names exactly that identifier; and the id
\* of a success answer is the job identifier the provider returned.
C9_LinearPath ==
    \A r \in FinetuneReqs :
        LET calls == req[r].calls
        IN /\ Len(calls) <= 2
           /\ Len(calls) >= 1 => calls[1].fn = "upload_training_file"
           /\ Len(calls) = 2 =>
                 /\ calls[2].fn = "fine_tune_openai_model"
                 /\ calls[1].outcome.tag = "return"
                 /\ "id" \in DOMAIN calls[1].outcome.value
                 /\ calls[2].args[1] = calls[1].outcome.value.id
           /\ (req[r].response.kind = "json" /\ req[r].response.body.success) =>
                 /\ Len(calls) = 2
                 /\ calls[2].outcome.tag = "return"
                 /\ req[r].response.body.id = calls[2].outcome.value.id

C9_Witness ==
    \E r \in FinetuneReqs :
        /\ req[r].pc = "done"
        /\ req[r].response.kind = "json"
        /\ req[r].response.body.success
        /\ req[r].calls[1].outcome.value.id = "file-2"

\* C10 as stated: no step of any request changes a module-level value, the
\* provider client's api key included.
C10_NoSharedWrite ==
    [][/\ loaded_models' = loaded_models
       /\ SECRET_KEY' = SECRET_KEY
       /\ environ' = environ
       /\ openai_api_key' = openai_api_key]_vars

\* C10 as amended: no step changes the registry, the secret or the
\* environment; the provider client's api key changes only in the step of a
\* fine-tuning request that passes validation and goes on to the upload, and
\* it becomes the environment's OPENAI_API_KEY.
C10_OnlyApiKeyWritten ==
    [][/\ loaded_models' = loaded_models
       /\ SECRET_KEY' = SECRET_KEY
       /\ environ' = environ
       /\ openai_api_key' # openai_api_key =>
             /\ openai_api_key' = environ.OPENAI_API_KEY
             /\ \E r \in Reqs :
                   /\ req[r].route = "finetune_openai"
                   /\ req[r].pc = "reading"
                   /\ req'[r].pc = "uploading"]_vars

C10_Witness ==
    \E r \in FinetuneReqs, q \in ChatReqs :
        /\ req[r].pc = "uploading"
        /\ req[q].pc = "done"
        /\ openai_api_key # None
        /\ openai_api_key = environ.OPENAI_API_KEY

====
